---- MODULE Spec2Model ----
(***************************************************************************)
(* A model of Web_App.py: the sector list fetcher (get_all_nifty_stocks),  *)
(* the per-ticker analyzer (analyze_single_stock) and the scan loop with   *)
(* its result display.                                                     *)
(*                                                                         *)
(* Conventions.                                                            *)
(*  - A Python str is a sequence of one-character strings.                 *)
(*  - A Python scalar is a record [t, v]: t = "num" (a float, v in units   *)
(*    of 1/Scale), "nan" (float NaN), "none" (None), "str" (a non-numeric  *)
(*    string), "na" (the literal "N/A" the code writes).                   *)
(*  - A Python exception is an outcome [raised |-> TRUE, ...]; a try/except*)
(*    is the operator that turns such an outcome into the handler's value. *)
(***************************************************************************)
EXTENDS Integers, Sequences, FiniteSets, TLC

\* ------------------------------------------------------------------ bounds

\* Largest ticker list a scan is run on.
MaxTickers == 3
\* Largest worker-pool width chosen on the slider (the slider allows 1..10).
MaxWorkers == 2
\* Longest price history the provider returns.
MaxBars == 16

\* ------------------------------------------------------- program constants

ROE_MIN == 12
DEBT_PCT_ABOVE == 10
PEG_MAX == 3
PE_MAX == 40
MIN_BARS == 14
ATR_WINDOW == 14
SL_MULT == 2
TGT_MULT == 4

\* Fixed point: a float x is the integer x * Scale.
Scale == 100 * 100
\* The literal 1.5 of rule 2
DEBT_MAX == 15 * (Scale \div 10)

\* ----------------------------------------------------------------- strings

\* Python: s.startswith(sub, k - 1)
StartsWithAt(s, sub, k) ==
  /\ k + Len(sub) - 1 <= Len(s)
  /\ \A j \in 1..Len(sub) : s[k + j - 1] = sub[j]

\* Python: sub in s
Contains(s, sub) == \E k \in 1..(Len(s) + 1) : StartsWithAt(s, sub, k)

UpperChar(c) ==
  CASE c = "d" -> "D" [] c = "u" -> "U" [] c = "m" -> "M" [] c = "y" -> "Y"
    [] c = "n" -> "N" [] c = "a" -> "A" [] c = "s" -> "S" [] c = "x" -> "X"
    [] OTHER -> c

\* Python: s.upper()
Upper(s) == [k \in 1..Len(s) |-> UpperChar(s[k])]

\* Python: s.replace(old, ""), scanning left to right without overlap
RECURSIVE ReplaceFrom(_, _, _)
ReplaceFrom(s, old, k) ==
  IF k > Len(s) THEN <<>>
  ELSE IF StartsWithAt(s, old, k) THEN ReplaceFrom(s, old, k + Len(old))
  ELSE <<s[k]>> \o ReplaceFrom(s, old, k + 1)

Replace(s, old) == ReplaceFrom(s, old, 1)

sNS == <<".", "N", "S">>
sDUMMY == <<"D", "U", "M", "M", "Y">>
sSymbol == <<"S", "y", "m", "b", "o", "l">>

\* ----------------------------------------------------------------- scalars

Num(x) == [t |-> "num", v |-> x]
NaN == [t |-> "nan", v |-> 0]
None == [t |-> "none", v |-> 0]
BadStr == [t |-> "str", v |-> 0]
N_A == [t |-> "na", v |-> 0]

\* A float literal with two decimals: Dec(1, 50) is 1.50
Dec(units, hundredths) == Num(units * Scale + hundredths * (Scale \div 100))

\* Python truthiness: None and 0 are false, NaN and non-empty strings true
Truthy(x) ==
  CASE x.t = "none" -> FALSE
    [] x.t = "num" -> x.v # 0
    [] OTHER -> TRUE

\* pd.isna / pd.notnull on a scalar
IsNa(x) == x.t \in {"none", "nan"}
NotNull(x) == ~IsNa(x)

\* An ordering comparison with a number raises TypeError for None and str
CmpRaises(x) == x.t \in {"none", "str", "na"}

\* x > c and x < c for a float x and an integer literal-scaled c; NaN compares false
Gt(x, c) == x.t = "num" /\ x.v > c
Lt(x, c) == x.t = "num" /\ x.v < c

\* round(n / d, digits) to a multiple of step, ties to even
RoundRatio(n, d, step) ==
  LET D == d * step
      q == n \div D
      r == n % D
      up == (2 * r > D) \/ (2 * r = D /\ q % 2 = 1)
  IN  (IF up THEN q + 1 ELSE q) * step

\* Python round(x, digits) for a float: NaN stays NaN
Round(x, digits) ==
  IF x.t = "nan" THEN NaN
  ELSE Num(RoundRatio(x.v, 1, IF digits = 1 THEN Scale \div 10 ELSE Scale \div 100))

\* ------------------------------------------------------ provider responses

\* stock.info: a dict (d maps the keys present to their values), a non-dict
\* container that holds the key, or an exception raised by the property.
InfoDict(d) == [t |-> "dict", d |-> d]
InfoRaises == [t |-> "raises", d |-> <<>>]
InfoList == [t |-> "list", d |-> [k \in {"currentPrice"} |-> Dec(100, 0)]]

\* Python: info.get(k, default)
Get(info, k, default) == IF k \in DOMAIN info.d THEN info.d[k] ELSE default

\* One daily bar of stock.history
Bar(k) ==
  LET low == 100 + 3 * (k % 4)
  IN  [High |-> Dec(low + 2, 0), Low |-> Dec(low, 0), Close |-> Dec(low + 1 + (k % 2), 0)]

NaNBar == [High |-> NaN, Low |-> NaN, Close |-> NaN]

\* stock.history: a frame of n bars, those at the positions of nans missing
\* (NaN); cols says whether it carries the High/Low/Close columns.
Frame(n, nans) ==
  [t |-> "frame", cols |-> TRUE, bars |-> [k \in 1..n |-> IF k \in nans THEN NaNBar ELSE Bar(k)]]

HistRaises == [t |-> "raises", cols |-> FALSE, bars |-> <<>>]
HistNoCols == [t |-> "frame", cols |-> FALSE, bars |-> [k \in 1..(MIN_BARS + 1) |-> NaNBar]]

\* --------------------------------------------------- analyze_single_stock

Return(rec) == [raised |-> FALSE, rec |-> rec]
Raise(msg) == [raised |-> TRUE, rec |-> [Exception |-> msg]]

\* Mutant: the error record also carries a score
ErrorRecordWithScore(symbol, msg) == [Ticker |-> symbol, Error |-> msg, Raw_Score |-> 0]

ErrorRecord(symbol, msg) == [Ticker |-> symbol, Error |-> msg]

\* roe * 100
Mul100(x) == IF x.t = "num" THEN Num(x.v * 100) ELSE x

\* debt_eq / 100
Div100(x) == IF x.t = "num" THEN Num(x.v \div 100) ELSE x

\* roe_pct = roe * 100 if roe else 0
roe_pct(roe) == IF Truthy(roe) THEN Mul100(roe) ELSE Num(0)

\* debt_ratio = debt_eq / 100 if debt_eq > 10 else debt_eq
debt_ratio(debt_eq) ==
  IF Gt(debt_eq, DEBT_PCT_ABOVE * Scale) THEN Div100(debt_eq) ELSE debt_eq

\* The comparisons of lines 183-198 that raise TypeError
ScoringRaises(roe, debt_eq, peg, pe) ==
  \/ CmpRaises(debt_eq)
  \/ CmpRaises(roe_pct(roe))
  \/ (~IsNa(peg) /\ CmpRaises(peg))
  \/ (NotNull(pe) /\ CmpRaises(pe))

\* Mutant: >= in place of >
Rule1AtLeast(roe) == roe_pct(roe).t = "num" /\ roe_pct(roe).v >= ROE_MIN * Scale

Rule1(roe) == Gt(roe_pct(roe), ROE_MIN * Scale)
Rule2(debt_eq) == Lt(debt_ratio(debt_eq), DEBT_MAX)
Rule3(peg) == IsNa(peg) \/ (Gt(peg, 0) /\ Lt(peg, PEG_MAX * Scale))
Rule4(pe) == NotNull(pe) /\ Gt(pe, 0) /\ Lt(pe, PE_MAX * Scale)

B2N(b) == IF b THEN 1 ELSE 0

score(roe, debt_eq, peg, pe) ==
  B2N(Rule1(roe)) + B2N(Rule2(debt_eq)) + B2N(Rule3(peg)) + B2N(Rule4(pe))

\* Mutant: the Watchlist band swallows score 3
verdictMerged(sc) ==
  IF sc = 4 THEN "STRONG BUY" ELSE IF sc >= 2 THEN "Watchlist" ELSE "Avoid"

verdict(sc) ==
  IF sc = 4 THEN "STRONG BUY"
  ELSE IF sc = 3 THEN "Quality Buy"
  ELSE IF sc = 2 THEN "Watchlist"
  ELSE "Avoid"

\* a - b and abs(a) on floats: NaN propagates
Sub(a, b) == IF a.t = "num" /\ b.t = "num" THEN Num(a.v - b.v) ELSE NaN
Abs(a) == IF a.t = "num" THEN Num(IF a.v < 0 THEN 0 - a.v ELSE a.v) ELSE NaN
\* np.maximum: NaN if either is NaN
Maximum(a, b) ==
  IF a.t = "num" /\ b.t = "num" THEN (IF a.v >= b.v THEN a ELSE b) ELSE NaN

\* hist['Close'].shift(1) at row k
PrevClose(bars, k) == IF k = 1 THEN NaN ELSE bars[k - 1].Close

\* hist['tr'] at row k
TrueRange(bars, k) ==
  Maximum(Sub(bars[k].High, bars[k].Low),
          Maximum(Abs(Sub(bars[k].High, PrevClose(bars, k))),
                  Abs(Sub(bars[k].Low, PrevClose(bars, k)))))

\* hist['tr'].tail(14): the rows of the last 14 bars
TailRows(bars) == {k \in 1..Len(bars) : k > Len(bars) - ATR_WINDOW}

RECURSIVE SumTr(_, _)
SumTr(bars, rows) ==
  IF rows = {} THEN 0
  ELSE LET k == CHOOSE x \in rows : TRUE
       IN  TrueRange(bars, k).v + SumTr(bars, rows \ {k})

\* .mean(): the NaN rows are skipped; no row left gives NaN.  The mean is
\* kept as the fraction n / d.
Mean(bars) ==
  LET rows == {k \in TailRows(bars) : TrueRange(bars, k).t = "num"}
  IN  IF rows = {} THEN [t |-> "nan", n |-> 0, d |-> 1]
      ELSE [t |-> "num", n |-> SumTr(bars, rows), d |-> Cardinality(rows)]

\* round(price + mult * atr, 2)
Level(price, mult, atr) ==
  IF price.t = "nan" \/ atr.t = "nan" THEN NaN
  ELSE Num(RoundRatio(price.v * atr.d + mult * atr.n, atr.d, Scale \div 100))

Levels(sl, tgt) == [raised |-> FALSE, sl |-> sl, tgt |-> tgt]
LevelsRaise == [raised |-> TRUE, sl |-> N_A, tgt |-> N_A]

\* The body of the inner try (lines 209-216)
TechnicalsBody(price, hist) ==
  IF hist.t = "raises" THEN LevelsRaise
  ELSE IF ~(Len(hist.bars) # 0 /\ Len(hist.bars) > MIN_BARS) THEN Levels(N_A, N_A)
  ELSE IF ~hist.cols THEN LevelsRaise
  ELSE IF price.t \in {"none", "str"} THEN LevelsRaise
  ELSE LET atr == Mean(hist.bars)
       IN  Levels(Level(price, 0 - SL_MULT, atr), Level(price, TGT_MULT, atr))

\* Mutant: no inner try/except
TechnicalsNoExcept(price, hist) == TechnicalsBody(price, hist)

\* The inner try/except (lines 208-218): except Exception: pass
Technicals(price, hist) ==
  LET body == TechnicalsBody(price, hist)
  IN  IF body.raised THEN Levels(N_A, N_A) ELSE body

ScoreStr(sc) ==
  <<CASE sc = 0 -> "0" [] sc = 1 -> "1" [] sc = 2 -> "2" [] sc = 3 -> "3" [] OTHER -> "4",
    "/", "4">>

\* The dict of lines 220-231
ResultRecord(symbol, price, roe, peg, pe, sc, tech) ==
  [Ticker |-> Replace(symbol, sNS),
   Price |-> price,
   Score |-> ScoreStr(sc),
   Verdict |-> verdict(sc),
   Stop_Loss |-> tech.sl,
   Target |-> tech.tgt,
   PEG_Ratio |-> IF NotNull(peg) THEN Round(peg, 2) ELSE N_A,
   ROE_pct |-> Round(roe_pct(roe), 1),
   P_E |-> IF NotNull(pe) THEN Round(pe, 1) ELSE N_A,
   Raw_Score |-> sc]

\* The body of the outer try (lines 162-231)
AnalyzeBody(symbol, info, hist) ==
  IF info.t = "raises" THEN Raise("info")
  ELSE IF DOMAIN info.d = {} \/ "currentPrice" \notin DOMAIN info.d
    THEN Return(ErrorRecord(symbol, "No Data/Blocked"))
  ELSE IF info.t = "list" THEN Raise("AttributeError")
  ELSE
    LET price == Get(info, "currentPrice", Num(0))
        roe == Get(info, "returnOnEquity", Num(0))
        debt_eq == Get(info, "debtToEquity", Num(0))
        peg == Get(info, "pegRatio", NaN)
        pe == Get(info, "trailingPE", NaN)
    IN  IF ScoringRaises(roe, debt_eq, peg, pe) THEN Raise("TypeError")
        ELSE
          LET sc == score(roe, debt_eq, peg, pe)
              tech == IF sc >= 2 THEN Technicals(price, hist) ELSE Levels(N_A, N_A)
          IN  IF tech.raised THEN Raise("technicals")
              ELSE Return(ResultRecord(symbol, price, roe, peg, pe, sc, tech))

\* Mutant: no outer try/except
analyze_no_except(symbol, info, hist) == AnalyzeBody(symbol, info, hist)

\* The outer try/except (lines 161, 233-234): except Exception as e
analyze_single_stock(symbol, info, hist) ==
  LET body == AnalyzeBody(symbol, info, hist)
  IN  IF body.raised THEN Return(ErrorRecord(symbol, body.rec.Exception)) ELSE body

\* ------------------------------------------------------------------- state

VARIABLES
  a_pc,        \* analyzer run: "call" before analyze_single_stock, "returned" after
  a_symbol,    \* its argument
  a_info,      \* what stock.info gives for it
  a_hist,      \* what stock.history gives for it
  a_ret,       \* the outcome of the call
  f_pc,        \* fetcher: "loop", "done"
  f_i,         \* sectors visited so far (the enumerate index)
  all_tickers, \* the set built by the loop
  f_ok,        \* the sectors whose body ran to its end with a Symbol column
  f_ret,       \* list(all_tickers)
  pc,          \* scan: "submit", "collect", "display", "done", "aborted"
  tickers,     \* the list the scan runs on
  workers,     \* the slider's value
  futures,     \* per position of tickers: state and outcome of its future
  results,     \* the scan loop's results list
  errors,      \* the scan loop's errors list
  completed,   \* the scan loop's counter
  top_picks,   \* the first table
  watchlist    \* the second table

a_vars == <<a_pc, a_symbol, a_info, a_hist, a_ret>>
f_vars == <<f_pc, f_i, all_tickers, f_ok, f_ret>>
s_vars == <<pc, tickers, workers, futures, results, errors, completed, top_picks, watchlist>>
vars == <<a_vars, f_vars, s_vars>>

NoOutcome == [raised |-> FALSE, rec |-> [Pending |-> TRUE]]

a_Idle ==
  /\ a_pc = "idle" /\ a_symbol = <<>> /\ a_info = InfoRaises
  /\ a_hist = HistRaises /\ a_ret = NoOutcome

\* ------------------------------------------- the analyzer on its own inputs

sTCS_NS == <<"T", "C", "S", ".", "N", "S">>

PriceValues == {None, BadStr, Num(0), Dec(100, 0)}
RoeValues == {None, NaN, Dec(0, 5), Dec(0, 12), Dec(0, 20)}
DebtValues == {None, NaN, Dec(0, 50), Dec(10, 0), Dec(10, 50), Dec(149, 0), Dec(150, 0)}
PegValues == {None, NaN, BadStr, Num(0), Dec(1, 20), Dec(3, 0)}
PeValues == {None, NaN, Num(0), Dec(18, 0), Dec(40, 0)}

InfoKeys == {"currentPrice", "returnOnEquity", "debtToEquity", "pegRatio", "trailingPE"}

Absent == [t |-> "absent", v |-> 0]

\* The dict holding each key whose value is not Absent
MkDict(price, roe, debt_eq, peg, pe) ==
  LET all == [k \in InfoKeys |->
                CASE k = "currentPrice" -> price
                  [] k = "returnOnEquity" -> roe
                  [] k = "debtToEquity" -> debt_eq
                  [] k = "pegRatio" -> peg
                  [] OTHER -> pe]
  IN  [k \in {x \in InfoKeys : all[x] # Absent} |-> all[k]]

Opt(S) == S \cup {Absent}

\* Every dict over a subset of the keys
Dicts ==
  {MkDict(p, r, d, g, e) : p \in Opt(PriceValues), r \in Opt(RoeValues),
     d \in Opt(DebtValues), g \in Opt(PegValues), e \in Opt(PeValues)}

Infos == {InfoDict(d) : d \in Dicts} \cup {InfoRaises, InfoList}

HistLens == {0, 10, MIN_BARS, MIN_BARS + 1, MaxBars}

Hists ==
  {HistRaises, HistNoCols}
    \cup {Frame(n, {}) : n \in HistLens}
    \cup {Frame(n, {n}) : n \in HistLens \ {0}}
    \cup {Frame(n, 1..n) : n \in HistLens \ {0}}

AnalyzeStart ==
  /\ a_pc = "call"
  /\ a_symbol = sTCS_NS
  /\ a_info \in Infos
  /\ a_hist \in Hists
  /\ a_ret = NoOutcome

AnalyzeCall ==
  /\ a_pc = "call"
  /\ a_pc' = "returned"
  /\ a_ret' = analyze_single_stock(a_symbol, a_info, a_hist)
  /\ UNCHANGED <<a_symbol, a_info, a_hist>>

\* ------------------------------------------------- get_all_nifty_stocks

SECTOR_MAP ==
  <<"auto", "bank", "it", "pharma", "fmcg", "metal", "realty", "energy", "media",
    "psubank", "privatebank", "financel", "healthcare", "consumerdurables", "oilandgas">>

NumSectors == Len(SECTOR_MAP)

sTCS == <<"T", "C", "S">>
sDUMY == <<"D", "U", "M", "Y">>
sDUMMY1 == <<"D", "U", "M", "M", "Y", "1">>
sdummy == <<"d", "u", "m", "m", "y">>
sxDuMmYx == <<"x", "D", "u", "M", "m", "Y", "x">>
\* An empty cell: pandas reads it as float NaN
CellNaN == <<"NaN">>
snan == <<"n", "a", "n">>

sName == <<"N", "a", "m", "e">>
sNSE_Symbol == <<"N", "S", "E", " ", "S", "y", "m", "b", "o", "l">>
ssymbol == <<"s", "y", "m", "b", "o", "l">>

\* Python: str(sym)
Str(cell) == IF cell = CellNaN THEN snan ELSE cell

CellPool == <<sTCS, sDUMMY1, sDUMY, sdummy, CellNaN, sxDuMmYx>>

\* The constituents the remote source lists for sector s
SectorCells(s) ==
  <<CellPool[(s % Len(CellPool)) + 1], CellPool[((s + 2) % Len(CellPool)) + 1]>>

\* What session.get / decode / read_csv give for sector s
NetError == [t |-> "neterr", columns |-> <<>>, cells |-> <<>>]
Undecodable == [t |-> "undecodable", columns |-> <<>>, cells |-> <<>>]
Malformed == [t |-> "malformed", columns |-> <<>>, cells |-> <<>>]
NoSymbolCsv(s) == [t |-> "csv", columns |-> <<sName, ssymbol>>, cells |-> SectorCells(s)]
GoodCsv(s) ==
  [t |-> "csv",
   columns |-> IF s % 2 = 0 THEN <<sName, sSymbol>> ELSE <<sName, sNSE_Symbol, sSymbol>>,
   cells |-> SectorCells(s)]

Responses(s) == {NetError, Undecodable, Malformed, NoSymbolCsv(s), GoodCsv(s)}

\* next((col for col in df.columns if 'Symbol' in col), None): 0 stands for None
symbol_col(columns) ==
  IF \E c \in 1..Len(columns) : Contains(columns[c], sSymbol)
  THEN CHOOSE c \in 1..Len(columns) :
         /\ Contains(columns[c], sSymbol)
         /\ \A b \in 1..(c - 1) : ~Contains(columns[b], sSymbol)
  ELSE 0

\* Mutant: the test without .upper()
KeepCaseSensitive(sym) == ~Contains(Str(sym), sDUMMY)

\* if "DUMMY" not in str(sym).upper()
Keep(sym) == ~Contains(Upper(Str(sym)), sDUMMY)

\* f"{sym}.NS"
Suffixed(sym) == Str(sym) \o sNS

\* The body of the try of one sector (lines 46-58)
SectorBody(resp, all) ==
  IF resp.t # "csv" THEN [raised |-> TRUE, all |-> all]
  ELSE IF symbol_col(resp.columns) = 0 THEN [raised |-> FALSE, all |-> all]
  ELSE [raised |-> FALSE,
        all |-> all \cup {Suffixed(resp.cells[k]) :
                            k \in {j \in 1..Len(resp.cells) : Keep(resp.cells[j])}}]

\* try / except Exception: pass (lines 45, 59-60)
TrySector(resp, all) ==
  LET body == SectorBody(resp, all)
  IN  IF body.raised THEN [raised |-> FALSE, all |-> all] ELSE body

\* Every order of a set as a list
ListsOf(S) ==
  {q \in [1..Cardinality(S) -> S] : \A a, b \in 1..Cardinality(S) : a # b => q[a] # q[b]}

f_Idle ==
  /\ f_pc = "idle" /\ f_i = 0 /\ all_tickers = {} /\ f_ok = {} /\ f_ret = <<>>

FetchStart ==
  /\ f_pc = "loop" /\ f_i = 0 /\ all_tickers = {} /\ f_ok = {} /\ f_ret = <<>>

\* One iteration of the for loop over the sectors
FetchSector ==
  /\ f_pc = "loop"
  /\ f_i < NumSectors
  /\ \E resp \in Responses(f_i + 1) :
       LET out == TrySector(resp, all_tickers)
       IN  /\ f_pc' = IF out.raised THEN "raised" ELSE "loop"
           /\ all_tickers' = out.all
           /\ f_i' = IF out.raised THEN f_i ELSE f_i + 1
           /\ f_ok' = IF resp = GoodCsv(f_i + 1) THEN f_ok \cup {f_i + 1} ELSE f_ok
  /\ UNCHANGED f_ret

\* return list(all_tickers): a set has no order of its own
FetchReturn ==
  /\ f_pc = "loop"
  /\ f_i = NumSectors
  /\ f_pc' = "done"
  /\ f_ret' \in ListsOf(all_tickers)
  /\ UNCHANGED <<f_i, all_tickers, f_ok>>

\* ------------------------------------------------- the scan (lines 248-288)

sA_NS == <<"A", ".", "N", "S">>
sB_NS == <<"B", ".", "N", "S">>
sC_NS == <<"C", ".", "N", "S">>
sD_NS == <<"D", ".", "N", "S">>
sE_NS == <<"E", ".", "N", "S">>

Universe == {sA_NS, sB_NS, sC_NS, sD_NS, sE_NS}

\* What the data provider holds for each ticker of the universe during a scan
SnapshotOf(t) ==
  CASE t = sA_NS -> InfoDict(MkDict(Dec(100, 0), Dec(0, 20), Dec(0, 50), Dec(1, 20), Dec(18, 0)))
    [] t = sB_NS -> InfoDict(MkDict(Absent, Absent, Absent, Absent, Absent))
    [] t = sC_NS -> InfoDict(MkDict(Dec(50, 0), Dec(0, 5), Dec(0, 30), Dec(1, 0), Dec(15, 0)))
    [] t = sD_NS -> InfoDict(MkDict(Dec(10, 0), Absent, Absent, Absent, Absent))
    [] OTHER -> InfoDict(MkDict(Dec(20, 0), Absent, Absent, Absent, Absent))

\* What stock.info may give for t: for B the provider gives the empty
\* snapshot, or the property raises, or it gives a non-dict, or a dict whose
\* debtToEquity is null; for E the provider may also report a debt of 200
ProviderInfos(t) ==
  CASE t = sB_NS -> {SnapshotOf(t), InfoRaises, InfoList,
                     InfoDict(MkDict(Dec(40, 0), Dec(0, 20), None, Absent, Absent))}
    [] t = sE_NS -> {SnapshotOf(t), InfoDict(MkDict(Dec(20, 0), Absent, Dec(200, 0), Absent, Absent))}
    [] OTHER -> {SnapshotOf(t)}

\* What stock.history may give for t
ProviderHists(t) ==
  CASE t = sA_NS -> {Frame(20, {})}
    [] t = sC_NS -> {Frame(MIN_BARS + 1, {})}
    [] t = sD_NS -> {Frame(10, {})}
    [] OTHER -> {HistRaises}

\* The lists without repetition, of at most MaxTickers tickers: the
\* values of list(all_tickers)
TickerLists == UNION {ListsOf(S) : S \in {T \in SUBSET Universe : Cardinality(T) <= MaxTickers}}

RemoveAt(seq, k) == [j \in 1..(Len(seq) - 1) |-> IF j < k THEN seq[j] ELSE seq[j + 1]]

\* The order of df.sort_values(by=["Raw_Score", "ROE %"], ascending=[False, False]):
\* higher score first, then higher ROE %, a NaN ROE % last
RoeBefore(x, y) == x.t = "num" /\ (y.t = "nan" \/ (y.t = "num" /\ x.v > y.v))

Before(a, b) ==
  \/ a.Raw_Score > b.Raw_Score
  \/ (a.Raw_Score = b.Raw_Score /\ RoeBefore(a.ROE_pct, b.ROE_pct))

\* The sort is stable: of the rows no row goes before, the first one
FirstRow(seq) ==
  CHOOSE k \in 1..Len(seq) :
    /\ \A j \in 1..Len(seq) : ~Before(seq[j], seq[k])
    /\ \A j \in 1..(k - 1) : Before(seq[k], seq[j])

RECURSIVE sort_values(_)
sort_values(seq) ==
  IF seq = <<>> THEN <<>>
  ELSE LET k == FirstRow(seq) IN <<seq[k]>> \o sort_values(RemoveAt(seq, k))

\* Mutant: the first table's filter starts at 2
IsTopLoose(r) == r.Raw_Score >= 2

IsTop(r) == r.Raw_Score >= 3
IsWatch(r) == r.Raw_Score = 2

\* .drop(columns=["Raw_Score"]) on one row
DropRawScore(r) == [f \in DOMAIN r \ {"Raw_Score"} |-> r[f]]

DropAll(rows) == [k \in 1..Len(rows) |-> DropRawScore(rows[k])]

\* df[df["Raw_Score"] >= 3] and df[df["Raw_Score"] == 2] of the sorted frame,
\* each without the Raw_Score column
TopPicks(res) == DropAll(SelectSeq(sort_values(res), IsTop))
Watchlist(res) == DropAll(SelectSeq(sort_values(res), IsWatch))

\* elif res["Raw_Score"] >= 2
Relevant(res) == res.Raw_Score >= 2

Running == {k \in DOMAIN futures : futures[k].st = "running"}

s_Idle ==
  /\ pc = "idle" /\ tickers = <<>> /\ workers = 0 /\ futures = <<>>
  /\ results = <<>> /\ errors = <<>> /\ completed = 0
  /\ top_picks = <<>> /\ watchlist = <<>>

ScanStart ==
  /\ pc = "submit"
  /\ tickers \in TickerLists
  /\ workers \in 1..MaxWorkers
  /\ futures = <<>>
  /\ results = <<>> /\ errors = <<>> /\ completed = 0
  /\ top_picks = <<>> /\ watchlist = <<>>

\* futures = {executor.submit(analyze_single_stock, t): t for t in tickers}
Submit ==
  /\ pc = "submit"
  /\ futures' = [k \in 1..Len(tickers) |->
       [st |-> "queued", runs |-> 0, info |-> InfoRaises, hist |-> HistRaises, out |-> NoOutcome]]
  /\ pc' = "collect"
  /\ UNCHANGED <<tickers, workers, results, errors, completed, top_picks, watchlist>>

\* A free worker thread takes the oldest queued work item
CanStart(k) ==
  /\ futures[k].st = "queued"
  /\ \A j \in 1..(k - 1) : futures[j].st # "queued"
  /\ Cardinality(Running) < workers

Start(k) ==
  /\ CanStart(k)
  /\ futures' = [futures EXCEPT ![k].st = "running"]
  /\ UNCHANGED <<pc, tickers, workers, results, errors, completed, top_picks, watchlist>>

\* The worker runs analyze_single_stock to its end and sets the future; info
\* and hist record what the provider gave this call, runs counts the calls
CanFinish(k) == futures[k].st = "running"

Finish(k) ==
  /\ CanFinish(k)
  /\ \E info \in ProviderInfos(tickers[k]), hist \in ProviderHists(tickers[k]) :
       futures' = [futures EXCEPT ![k] =
         [st |-> "done", runs |-> futures[k].runs + 1, info |-> info, hist |-> hist,
          out |-> analyze_single_stock(tickers[k], info, hist)]]
  /\ UNCHANGED <<pc, tickers, workers, results, errors, completed, top_picks, watchlist>>

\* One iteration of the as_completed loop (lines 263-272); future.result()
\* raises what the call raised
CanCollect(k) == pc = "collect" /\ futures[k].st = "done"

Collect(k) ==
  /\ CanCollect(k)
  /\ LET out == futures[k].out
         res == out.rec
     IN  IF out.raised
         THEN /\ pc' = "aborted"
              /\ UNCHANGED <<results, errors, completed>>
         ELSE /\ pc' = pc
              /\ errors' = IF "Error" \in DOMAIN res THEN Append(errors, res) ELSE errors
              /\ results' = IF "Error" \notin DOMAIN res /\ Relevant(res)
                            THEN Append(results, res) ELSE results
              /\ completed' = completed + 1
  /\ futures' = [futures EXCEPT ![k].st = "collected"]
  /\ UNCHANGED <<tickers, workers, top_picks, watchlist>>

\* as_completed is exhausted and the with block is left
CanExitPool == pc = "collect" /\ \A k \in DOMAIN futures : futures[k].st = "collected"

ExitPool ==
  /\ CanExitPool
  /\ pc' = "display"
  /\ UNCHANGED <<tickers, workers, futures, results, errors, completed, top_picks, watchlist>>

\* if results: sort and show the two tables (lines 277-290)
Display ==
  /\ pc = "display"
  /\ top_picks' = IF results # <<>> THEN TopPicks(results) ELSE <<>>
  /\ watchlist' = IF results # <<>> THEN Watchlist(results) ELSE <<>>
  /\ pc' = "done"
  /\ UNCHANGED <<tickers, workers, futures, results, errors, completed>>

\* ---------------------------------------------------------- specifications

AnalyzeInit == AnalyzeStart /\ f_Idle /\ s_Idle
AnalyzeNext == AnalyzeCall /\ UNCHANGED <<f_vars, s_vars>>
SpecAnalyze == AnalyzeInit /\ [][AnalyzeNext]_vars

FetchInit == FetchStart /\ a_Idle /\ s_Idle
FetchNext ==
  \/ FetchSector /\ UNCHANGED <<a_vars, s_vars>>
  \/ FetchReturn /\ UNCHANGED <<a_vars, s_vars>>
SpecFetch == FetchInit /\ [][FetchNext]_vars

ScanInit == ScanStart /\ a_Idle /\ f_Idle
ScanNext ==
  \/ Submit /\ UNCHANGED <<a_vars, f_vars>>
  \/ \E k \in DOMAIN futures : Start(k) /\ UNCHANGED <<a_vars, f_vars>>
  \/ \E k \in DOMAIN futures : Finish(k) /\ UNCHANGED <<a_vars, f_vars>>
  \/ \E k \in DOMAIN futures : Collect(k) /\ UNCHANGED <<a_vars, f_vars>>
  \/ ExitPool /\ UNCHANGED <<a_vars, f_vars>>
  \/ Display /\ UNCHANGED <<a_vars, f_vars>>
SpecScan == ScanInit /\ [][ScanNext]_vars

\* ------------------------------------------------------------------ claims

ResultFields ==
  {"Price", "Score", "Verdict", "Stop_Loss", "Target", "PEG_Ratio", "ROE_pct", "P_E",
   "Raw_Score"}

IsErrorRecord(r) ==
  /\ {"Ticker", "Error"} \subseteq DOMAIN r
  /\ DOMAIN r \cap ResultFields = {}

IsResultRecord(r) ==
  /\ ResultFields \cup {"Ticker"} \subseteq DOMAIN r
  /\ "Error" \notin DOMAIN r

\* The value of key k in a dict, Absent when the key is missing
Field(info, k) == Get(info, k, Absent)

HasPrice(info) == info.t = "dict" /\ "currentPrice" \in DOMAIN info.d

\* C1: whatever the provider gives (an empty snapshot, one without a current
\* price, a valid one, a fault at any step), analyze_single_stock returns, and
\* what it returns is either an error record or a full result record, never
\* both and never neither.
C1_ExactlyOne ==
  a_pc = "returned" =>
    /\ ~a_ret.raised
    /\ IsErrorRecord(a_ret.rec) # IsResultRecord(a_ret.rec)

C1_Witness ==
  /\ a_pc = "returned"
  /\ a_info = InfoRaises
  /\ IsErrorRecord(a_ret.rec)
  /\ a_ret.rec.Ticker = a_symbol

\* A fault outside the technical step: the snapshot retrieval raises, the
\* field extraction raises, or a comparison of the scoring raises
OuterFault(info) ==
  \/ info.t \in {"raises", "list"}
  \/ /\ HasPrice(info)
     /\ ScoringRaises(Get(info, "returnOnEquity", Num(0)), Get(info, "debtToEquity", Num(0)),
                      Get(info, "pegRatio", NaN), Get(info, "trailingPE", NaN))

ScoreOf(info) ==
  score(Get(info, "returnOnEquity", Num(0)), Get(info, "debtToEquity", Num(0)),
        Get(info, "pegRatio", NaN), Get(info, "trailingPE", NaN))

\* A fault in the technical step: the history is asked for (score >= 2) and
\* its retrieval raises, or it has 15 bars or more and the level computation
\* raises (no OHLC columns, a null or string price)
TechFault(info, hist) ==
  /\ HasPrice(info)
  /\ ~OuterFault(info)
  /\ ScoreOf(info) >= 2
  /\ \/ hist.t = "raises"
     \/ /\ Len(hist.bars) >= 15
        /\ (~hist.cols \/ info.d["currentPrice"].t \in {"none", "str"})

\* The history is asked for (score >= 2) and its retrieval raises
HistoryFault(info, hist) ==
  /\ HasPrice(info)
  /\ ~OuterFault(info)
  /\ ScoreOf(info) >= 2
  /\ hist.t = "raises"

Finished(k) == futures[k].st \in {"done", "collected"}

Count(seq, r) == Cardinality({j \in DOMAIN seq : seq[j] = r})

\* The record of future k went where the scan loop puts it
Aggregated(k) ==
  LET rec == futures[k].out.rec
  IN  IF IsErrorRecord(rec) THEN Count(errors, rec) = 1
      ELSE Count(results, rec) = (IF rec.Raw_Score >= 2 THEN 1 ELSE 0)

\* Some step of the scan can be taken
ScanCanStep ==
  \/ pc \in {"submit", "display"}
  \/ CanExitPool
  \/ \E k \in DOMAIN futures : CanStart(k) \/ CanFinish(k) \/ CanCollect(k)

ScanCompletes ==
  /\ pc # "aborted"
  /\ \A k \in DOMAIN futures : Finished(k) => ~futures[k].out.raised
  /\ (pc = "done" \/ ScanCanStep)
  /\ pc \in {"display", "done"} =>
       \A k \in DOMAIN tickers :
         futures[k].st = "collected" /\ futures[k].runs = 1 /\ Aggregated(k)

\* C2 as stated: a fault at any step, the history retrieval included, becomes
\* an error record for its ticker; nothing reaches the scan loop, the other
\* tickers are analysed and aggregated, and the scan reaches its display.
C2_Original ==
  /\ ScanCompletes
  /\ \A k \in DOMAIN futures :
       (Finished(k) /\ (OuterFault(futures[k].info)
                          \/ HistoryFault(futures[k].info, futures[k].hist)))
         => IsErrorRecord(futures[k].out.rec)

\* C2 as amended: a fault outside the technical step becomes an error record
\* for its ticker, a fault in the technical step leaves a result record whose
\* stop-loss and target are unavailable; nothing reaches the scan loop, every
\* dispatched ticker is analysed once and aggregated, and the scan reaches
\* its display.
C2_FaultsContained ==
  /\ ScanCompletes
  /\ \A k \in DOMAIN futures :
       Finished(k) =>
         LET rec == futures[k].out.rec
         IN  /\ OuterFault(futures[k].info) =>
                  IsErrorRecord(rec) /\ rec.Ticker = tickers[k]
             /\ TechFault(futures[k].info, futures[k].hist) =>
                  IsResultRecord(rec) /\ rec.Stop_Loss = N_A /\ rec.Target = N_A

C2_Witness ==
  /\ pc = "done"
  /\ \E k \in DOMAIN futures : OuterFault(futures[k].info) /\ futures[k].info.t = "dict"
  /\ \E k \in DOMAIN futures : TechFault(futures[k].info, futures[k].hist)
  /\ \E k \in DOMAIN futures : IsResultRecord(futures[k].out.rec) /\ top_picks # <<>>

RecOf(k) == futures[k].out.rec

Class(k) ==
  IF IsErrorRecord(RecOf(k)) THEN "error"
  ELSE IF RecOf(k).Raw_Score >= 3 THEN "top"
  ELSE IF RecOf(k).Raw_Score = 2 THEN "watch"
  ELSE "dropped"

TickersIn(rows) == {rows[j].Ticker : j \in DOMAIN rows}

\* C3: when the tables are produced every input ticker has been analysed
\* exactly once and collected, and it is in exactly one class: the error list
\* (error record), the top picks (score >= 3), the watchlist (score 2) or
\* dropped (score < 2); the lists hold nothing else, and no ticker twice.
C3_Partition ==
  pc = "done" =>
    /\ \A k \in DOMAIN tickers : futures[k].st = "collected" /\ futures[k].runs = 1
    /\ \A k \in DOMAIN tickers :
         /\ (tickers[k] \in TickersIn(errors)) <=> (Class(k) = "error")
         /\ (Replace(tickers[k], sNS) \in TickersIn(top_picks)) <=> (Class(k) = "top")
         /\ (Replace(tickers[k], sNS) \in TickersIn(watchlist)) <=> (Class(k) = "watch")
    /\ Len(errors) + Len(top_picks) + Len(watchlist)
         = Cardinality({k \in DOMAIN tickers : Class(k) # "dropped"})
    /\ TickersIn(top_picks) \cap TickersIn(watchlist) = {}

C3_Witness ==
  /\ pc = "done"
  /\ \E k \in DOMAIN tickers : Class(k) = "dropped"
  /\ \E k \in DOMAIN tickers : Class(k) = "top"
  /\ \E k \in DOMAIN tickers : Class(k) = "watch"

\* Every order in which the same records could have been collected
Reorderings(seq) ==
  {[k \in 1..Len(seq) |-> seq[p[k]]] : p \in ListsOf(1..Len(seq))}

\* C4: the two tables shown are the ones every other completion order of the
\* same analyses would have given, row for row.
C4_OrderFixed ==
  pc = "done" =>
    \A other \in Reorderings(results) :
      /\ TopPicks(other) = top_picks
      /\ Watchlist(other) = watchlist

sTCS_NS_out == <<"T", "C", "S", ".", "N", "S">>
sDUMY_NS_out == <<"D", "U", "M", "Y", ".", "N", "S">>
snan_NS_out == <<"n", "a", "n", ".", "N", "S">>

Lists(s, cell) == \E j \in 1..Len(SectorCells(s)) : SectorCells(s)[j] = cell

ListedBy(ok, cell) == \E s \in ok : Lists(s, cell)

\* The suffixed symbols without DUMMY that the sectors of ok list (an empty
\* cell reads as the symbol nan)
ExpectedTickers(ok) ==
  {x \in {sTCS_NS_out, sDUMY_NS_out, snan_NS_out} :
     \/ (x = sTCS_NS_out /\ ListedBy(ok, sTCS))
     \/ (x = sDUMY_NS_out /\ ListedBy(ok, sDUMY))
     \/ (x = snan_NS_out /\ ListedBy(ok, CellNaN))}

\* C5: whichever sectors fail, the fetcher raises nothing, visits all 15
\* sectors, and returns exactly the suffixed symbols without DUMMY (in any
\* case) that the successful sectors list, each once.
C5_BestEffortMerge ==
  /\ f_pc # "raised"
  /\ f_pc = "done" =>
       /\ f_i = 15
       /\ {f_ret[j] : j \in DOMAIN f_ret} = ExpectedTickers(f_ok)
       /\ Len(f_ret) = Cardinality(ExpectedTickers(f_ok))

C5_Witness ==
  /\ f_pc = "done"
  /\ \E s1, s2 \in f_ok : s1 # s2 /\ Lists(s1, sTCS) /\ Lists(s2, sTCS)
  /\ \E s \in (1..NumSectors) \ f_ok : Lists(s, sDUMY)
  /\ \E s \in f_ok : Lists(s, sxDuMmYx)
  /\ Len(f_ret) = 2

IsNum(x) == x.t = "num"

\* ROE and debt present and numeric, PEG and P/E numeric or absent
NumericSnapshot(info) ==
  /\ HasPrice(info)
  /\ IsNum(Field(info, "returnOnEquity"))
  /\ IsNum(Field(info, "debtToEquity"))
  /\ Field(info, "pegRatio") = Absent \/ IsNum(Field(info, "pegRatio"))
  /\ Field(info, "trailingPE") = Absent \/ IsNum(Field(info, "trailingPE"))

\* The four rules as the claim words them, on the raw fields
R1(info) == Field(info, "returnOnEquity").v * 100 > 12 * Scale
R2(info) ==
  LET raw == Field(info, "debtToEquity").v
  IN  IF raw > 10 * Scale THEN raw < 150 * Scale ELSE 2 * raw < 3 * Scale
R3(info) ==
  \/ Field(info, "pegRatio") = Absent
  \/ (Field(info, "pegRatio").v > 0 /\ Field(info, "pegRatio").v < 3 * Scale)
R4(info) ==
  /\ Field(info, "trailingPE") # Absent
  /\ Field(info, "trailingPE").v > 0
  /\ Field(info, "trailingPE").v < 40 * Scale

RulesPassed(info) ==
  Cardinality({n \in 1..4 :
     \/ (n = 1 /\ R1(info)) \/ (n = 2 /\ R2(info))
     \/ (n = 3 /\ R3(info)) \/ (n = 4 /\ R4(info))})

\* C6: on a snapshot with numeric fields the score is the number of the four
\* rules that pass, it lies in 0..4, and the verdict is the score's: 4 STRONG
\* BUY, 3 Quality Buy, 2 Watchlist, 0 or 1 Avoid.
C6_ScoreAndVerdict ==
  (a_pc = "returned" /\ NumericSnapshot(a_info)) =>
    /\ IsResultRecord(a_ret.rec)
    /\ a_ret.rec.Raw_Score = RulesPassed(a_info)
    /\ a_ret.rec.Raw_Score \in 0..4
    /\ a_ret.rec.Verdict =
         (CASE a_ret.rec.Raw_Score = 4 -> "STRONG BUY"
            [] a_ret.rec.Raw_Score = 3 -> "Quality Buy"
            [] a_ret.rec.Raw_Score = 2 -> "Watchlist"
            [] OTHER -> "Avoid")

C6_Witness ==
  /\ a_pc = "returned"
  /\ NumericSnapshot(a_info)
  /\ Field(a_info, "debtToEquity") = Dec(149, 0)
  /\ Field(a_info, "returnOnEquity") = Dec(0, 12)
  /\ a_ret.rec.Raw_Score = 3
  /\ a_ret.rec.Verdict = "Quality Buy"

\* Each scoring field is absent, null, NaN or a number
PlainFields(info) ==
  \A k \in {"returnOnEquity", "debtToEquity", "pegRatio", "trailingPE"} :
    Field(info, k).t \in {"absent", "none", "nan", "num"}

\* C7: a snapshot with a current price gets a result record with a score,
\* whatever its ROE, debt, PEG and P/E fields are (absent, null, NaN, numeric).
C7_NoFailureMode ==
  (a_pc = "returned" /\ HasPrice(a_info) /\ PlainFields(a_info)) =>
    IsResultRecord(a_ret.rec)

\* The history gives no levels: retrieval raises, fewer than 15 bars, no
\* OHLC columns, or a price (null, a string) the level arithmetic rejects
Degraded(info, hist) ==
  \/ hist.t = "raises"
  \/ Len(hist.bars) < 15
  \/ ~hist.cols
  \/ Field(info, "currentPrice") \in {None, BadStr}

\* The same call with a full, valid history
Reference == analyze_single_stock(a_symbol, a_info, Frame(20, {}))

\* C8: with a valid snapshot and score >= 2, a degraded technical step still
\* gives a result record: the same fields as with a valid history, stop-loss
\* and target unavailable.
C8_DegradedTechnicals ==
  (/\ a_pc = "returned"
   /\ IsResultRecord(Reference.rec)
   /\ Reference.rec.Raw_Score >= 2
   /\ Degraded(a_info, a_hist)) =>
    a_ret.rec = [Reference.rec EXCEPT !.Stop_Loss = N_A, !.Target = N_A]

C8_Witness ==
  /\ a_pc = "returned"
  /\ a_hist = HistRaises
  /\ IsResultRecord(a_ret.rec)
  /\ a_ret.rec.Raw_Score = 4
  /\ Reference.rec.Stop_Loss.t = "num"
  /\ a_ret.rec.Stop_Loss = N_A

\* A bar the 14-period average reads (the last 14 bars and the close before
\* them) is missing
MissingBarUsed(hist) ==
  /\ hist.t = "frame" /\ hist.cols
  /\ Len(hist.bars) >= 15
  /\ \E k \in DOMAIN hist.bars : k >= Len(hist.bars) - 14 /\ hist.bars[k] = NaNBar

\* C9: with a reference price of 0, or a missing bar among those the average
\* reads, stop-loss and target are unavailable.
C9_FailSafe ==
  (/\ a_pc = "returned"
   /\ IsResultRecord(a_ret.rec)
   /\ (a_ret.rec.Price = Num(0) \/ MissingBarUsed(a_hist))) =>
    (a_ret.rec.Stop_Loss = N_A /\ a_ret.rec.Target = N_A)

FutureFor(t) == futures[CHOOSE k \in DOMAIN tickers : tickers[k] = t]

RecFor(t) == FutureFor(t).out.rec

\* The scan is of A, B and C, and B's snapshot came back empty
IsABC ==
  /\ {tickers[k] : k \in DOMAIN tickers} = {sA_NS, sB_NS, sC_NS}
  /\ FutureFor(sB_NS).info = SnapshotOf(sB_NS)

Shown == TickersIn(top_picks) \cup TickersIn(watchlist)

\* What the scenario says of A and B
ScenarioAB ==
  /\ IsResultRecord(RecFor(sA_NS))
  /\ RecFor(sA_NS).Raw_Score = 4
  /\ RecFor(sA_NS).Score = <<"4", "/", "4">>
  /\ RecFor(sA_NS).Verdict = "STRONG BUY"
  /\ RecFor(sA_NS).Stop_Loss.t = "num" /\ RecFor(sA_NS).Target.t = "num"
  /\ <<"A">> \in TickersIn(top_picks)
  /\ IsErrorRecord(RecFor(sB_NS))
  /\ RecFor(sB_NS) \in {errors[j] : j \in DOMAIN errors}
  /\ Shown \cap {<<"B">>, sB_NS} = {}

\* C10 as stated: in the scan of A, B, C, ticker C gets score 2 and verdict
\* Watchlist and is shown only in the watchlist.
C10_Original ==
  (pc = "done" /\ IsABC) =>
    /\ ScenarioAB
    /\ RecFor(sC_NS).Raw_Score = 2
    /\ RecFor(sC_NS).Verdict = "Watchlist"
    /\ <<"C">> \in TickersIn(watchlist)
    /\ <<"C">> \notin TickersIn(top_picks)

\* C10 as amended: A gets score 4, STRONG BUY and numeric levels; B gets an
\* error record and is in no table; C fails the ROE rule only, so it gets
\* score 3 and verdict Quality Buy and is shown only in the top picks.
C10_EndToEnd ==
  (pc = "done" /\ IsABC) =>
    /\ ScenarioAB
    /\ RecFor(sC_NS).Raw_Score = 3
    /\ RecFor(sC_NS).Verdict = "Quality Buy"
    /\ <<"C">> \in TickersIn(top_picks)
    /\ <<"C">> \notin TickersIn(watchlist)

C10_Witness ==
  /\ pc = "done"
  /\ IsABC
  /\ Len(top_picks) = 2
  /\ top_picks[1].Ticker = <<"A">>

====
